---- MODULE Spec2Model ----
(***************************************************************************)
(* Decoupled-CloudVolume: a ClientProxy per user process, one              *)
(* SpatialScheduler (ROUTER socket) and N VolumeWorker processes (DEALER   *)
(* sockets), exchanging READY / READ / RESULT records and sharing named    *)
(* shared-memory buffers.                                                  *)
(***************************************************************************)
EXTENDS Integers, Sequences, FiniteSets, TLC

\* ------------------------------------------------------------------ bounds
NumWorkers == 2
NumClients == 2
MaxReads == 3
NumVoxels == 2
MaxCrashes == 1
MaxReady == 2
MaxResults == 3
MaxShapeErrors == 1
MaxViews == 2
MaxReadsA == 4
MaxReadsH == 7
MaxElems == 3
MaxCoord == 2

\* ------------------------------------------------------- program constants
history_len == 5
LOAD_TOLERANCE == 2

\* -------------------------------------------------------------- identities
\* Transport identities are opaque byte strings; integers keep them sortable.
Workers == 1..NumWorkers
Clients == (NumWorkers + 1)..(NumWorkers + NumClients)
FirstClient == NumWorkers + 1

\* A request of client c is numbered n = 1..MaxReads.  Its req_id
\* "<pid>_req_<uuid>" and its shm_name "<pid>_shm_<uuid>" are both fresh per
\* call, so the pair <<c, n>> stands for either.
ReqIds == Clients \X (1..MaxReads)
Voxels == 1..NumVoxels
\* The region a client asks for in its n-th read
bbox_of(n) ==
  IF n % 2 = 1 THEN <<0, 0, 0, 100, 100, 10>> ELSE <<50, 50, 0, 150, 150, 10>>

\* No buffer of that name (a buffer holds at least one voxel).
Absent == <<>>
NoMsg == [type |-> "NONE"]
NoCall == [fn |-> "NONE"]

\* vol.background_color of each client's volume: non-zero for the first
\* client, zero for the others.
background_color(c) == IF c = FirstClient THEN 7 ELSE 0
\* The value the volume library writes into voxel v when it decodes it.
volume_data(v) == 10 + v

VARIABLES
  \* SpatialScheduler fields
  workers, worker_list, rr_counter, worker_history, worker_load, process_map,
  ready_event,
  \* SpatialScheduler.run: "recv" at the recv_multipart await, "wait_ready"
  \* inside _dispatch_request at the ready_event.wait() await; pending is the
  \* READ (with its sender) held by the suspended _dispatch_request call.
  sched_pc, pending,
  \* transport: per-peer FIFO queues into and out of the ROUTER socket
  to_sched, to_worker, to_client,
  \* VolumeWorker: "init" | "idle" | "busy" | "dead" (killed) | "exited" (run()
  \* returned), and the request in hand
  wpc, wreq,
  \* ClientProxy: "idle" | "waiting", and the number of reads issued so far
  cpc, issued,
  \* the shared-memory namespace: name -> contents, or Absent
  shm,
  \* history of the run (not program state)
  req_status, completed_by, dispatched, n_dispatched, bbox_log, n_results,
  read_from, unlink_log, skipped, frames,
  \* (bbox_log is, per worker, every bbox the dispatch function recorded for
  \* it, oldest first; frames counts the READY and RESULT frames peers have
  \* sent in SchedSpec and, under "REPEAT", the READY frames handled for an
  \* identity that was registered and had a non-zero load)
  \* the workers chosen by the dispatch function since the worker set last
  \* changed
  rr_log,
  \* per buffer, the array objects made on it in creation order (first the one
  \* AutoReleaseArray.__new__ returned, then the views derived from it), each
  \* with its _owns_memory flag and whether it is still referenced
  arrays,
  \* per client, the number of read calls that raised the empty-shape error
  shape_errors,
  \* a call of one of the module-level functions (fast_fill,
  \* calc_intersection_volume): its arguments and, once it has returned, what
  \* it did; NoCall in the runs of the processes
  call

sched_vars == <<workers, worker_list, rr_counter, worker_history, worker_load,
                process_map, ready_event, sched_pc, pending>>
net_vars == <<to_sched, to_worker, to_client>>
worker_vars == <<wpc, wreq>>
client_vars == <<cpc, issued>>
hist_vars == <<req_status, completed_by, dispatched, n_dispatched, bbox_log,
               n_results, read_from, unlink_log, skipped, frames>>
array_vars == <<arrays, shape_errors>>
vars == <<sched_vars, net_vars, worker_vars, client_vars, shm, hist_vars,
          rr_log, array_vars, call>>

\* ----------------------------------------------------------------- helpers
Max(a, b) == IF a >= b THEN a ELSE b

\* dict.get(key, default)
Get(rec, key, default) == IF key \in DOMAIN rec THEN rec[key] ELSE default

\* payload[key] = val  (adds the key or overwrites it)
Put(rec, key, val) ==
  [k \in DOMAIN rec \cup {key} |-> IF k = key THEN val ELSE rec[k]]

\* sorted(list(S)) for a set of identities
RECURSIVE sorted(_)
sorted(S) ==
  IF S = {} THEN <<>>
  ELSE LET m == CHOOSE x \in S : \A y \in S : x <= y
       IN <<m>> \o sorted(S \ {m})

\* Mutant: a full deque discards the new element instead of its oldest one.
deque_append_keep_oldest(q, b) ==
  IF Len(q) >= history_len THEN q ELSE Append(q, b)

\* deque(maxlen=history_len).append(b)
deque_append(q, b) ==
  LET a == Append(q, b)
  IN IF Len(a) > history_len THEN Tail(a) ELSE a

Send(q, dest, m) == [q EXCEPT ![dest] = Append(@, m)]
Pop(q, src) == [q EXCEPT ![src] = Tail(@)]

Filled(value) == [v \in Voxels |-> value]

\* np.prod(shape)
RECURSIVE np_prod(_)
np_prod(shape) ==
  IF shape = <<>> THEN 1 ELSE Head(shape) * np_prod(Tail(shape))

\* bbox.size3() + [num_channels] of the regions read: NumVoxels voxels
ReadShape == <<NumVoxels, 1, 1, 1>>

\* ---------------------------------------------------------------- initial
ProcessInit ==
  /\ workers = {}
  /\ worker_list = <<>>
  /\ rr_counter = 0
  /\ worker_history = [w \in Workers |-> <<>>]
  /\ worker_load = [w \in {} |-> 0]
  /\ process_map = [k \in {} |-> 0]
  /\ ready_event = FALSE
  /\ sched_pc = "recv"
  /\ pending = NoMsg
  /\ to_sched = [p \in Workers \cup Clients |-> <<>>]
  /\ to_worker = [w \in Workers |-> <<>>]
  /\ to_client = [c \in Clients |-> <<>>]
  /\ wpc = [w \in Workers |-> "init"]
  /\ wreq = [w \in Workers |-> NoMsg]
  /\ cpc = [c \in Clients |-> "idle"]
  /\ issued = [c \in Clients |-> 0]
  /\ shm = [r \in ReqIds |-> Absent]
  /\ req_status = [r \in ReqIds |-> "unsent"]
  /\ completed_by = [r \in ReqIds |-> NoMsg]
  /\ dispatched = [r \in ReqIds |-> <<>>]
  /\ n_dispatched = [w \in Workers |-> 0]
  /\ bbox_log = [w \in Workers |-> <<>>]
  /\ n_results = [w \in Workers |-> 0]
  /\ read_from = [r \in ReqIds |-> 0]
  /\ unlink_log = [r \in ReqIds |-> <<>>]
  /\ skipped = {}
  /\ frames = [t \in {"READY", "RESULT", "REPEAT"} |-> 0]
  /\ rr_log = <<>>
  /\ arrays = [r \in ReqIds |-> <<>>]
  /\ shape_errors = [c \in Clients |-> 0]

Init == ProcessInit /\ call = NoCall

\* ============================================================ scheduler
\* Mutant: the membership test is missing, every READY registers afresh.
_handle_worker_ready_afresh(worker_id) ==
  /\ workers' = workers \cup {worker_id}
  /\ worker_load' = [w \in DOMAIN worker_load \cup {worker_id} |->
                       IF w = worker_id THEN 0 ELSE worker_load[w]]
  /\ worker_list' = sorted(workers \cup {worker_id})
  /\ ready_event' = TRUE
  /\ rr_log' = <<>>

\* SpatialScheduler._handle_worker_ready
_handle_worker_ready(worker_id) ==
  IF worker_id \notin workers
  THEN /\ workers' = workers \cup {worker_id}
       /\ worker_load' = [w \in DOMAIN worker_load \cup {worker_id} |->
                            IF w = worker_id THEN 0 ELSE worker_load[w]]
       /\ worker_list' = sorted(workers \cup {worker_id})
       /\ ready_event' = TRUE
       /\ rr_log' = <<>>
  ELSE UNCHANGED <<workers, worker_load, worker_list, ready_event, rr_log>>

\* Mutant: the worker with the smallest load is taken instead of the next one.
_get_round_robin_worker_least_loaded ==
  CHOOSE w \in workers :
    \A x \in workers :
      \/ worker_load[w] < worker_load[x]
      \/ (worker_load[w] = worker_load[x] /\ w <= x)

\* SpatialScheduler._get_round_robin_worker: the identity it returns (the
\* counter increment is applied by the caller's step).
_get_round_robin_worker ==
  worker_list[(rr_counter % Len(worker_list)) + 1]

\* Mutant: every worker's counter is raised.
load_incr_all(load, w) ==
  [x \in DOMAIN load \cup {w} |-> Get(load, x, 0) + 1]

\* worker_load[w] += 1 on a defaultdict(int)
load_incr(load, w) ==
  [x \in DOMAIN load \cup {w} |->
     IF x = w THEN Get(load, w, 0) + 1 ELSE load[x]]

\* Mutant: the READ is forwarded to the chosen worker and re-sent to the
\* next one in the list.
_dispatch_request_resend(client_id, payload) ==
  LET best_worker == _get_round_robin_worker
      other == worker_list[((rr_counter + 1) % Len(worker_list)) + 1]
      msg == Put(payload, "client_id", client_id)
  IN /\ rr_counter' = rr_counter + 1
     /\ worker_history' =
          [worker_history EXCEPT ![best_worker] = deque_append(@, payload.bbox)]
     /\ worker_load' = load_incr(worker_load, best_worker)
     /\ to_worker' = Send(Send(to_worker, best_worker, msg), other, msg)
     /\ dispatched' = [dispatched EXCEPT ![payload.req_id] =
                         Append(Append(@, best_worker), other)]
     /\ n_dispatched' = [n_dispatched EXCEPT ![best_worker] = @ + 1]
     /\ bbox_log' = [bbox_log EXCEPT ![best_worker] = Append(@, payload.bbox)]
     /\ read_from' = [read_from EXCEPT ![payload.req_id] = client_id]
     /\ rr_log' = Append(rr_log, best_worker)
     /\ UNCHANGED <<workers, worker_list, process_map, ready_event>>

\* SpatialScheduler._dispatch_request, from step 2 on (a worker is available)
_dispatch_request(client_id, payload) ==
  LET best_worker == _get_round_robin_worker
      bbox == Get(payload, "bbox", <<>>)
  IN /\ rr_counter' = rr_counter + 1
     /\ worker_history' =
          IF bbox # <<>>
          THEN [worker_history EXCEPT ![best_worker] = deque_append(@, bbox)]
          ELSE worker_history
     /\ worker_load' = load_incr(worker_load, best_worker)
     /\ to_worker' = Send(to_worker, best_worker,
                          Put(payload, "client_id", client_id))
     /\ dispatched' = [dispatched EXCEPT ![payload.req_id] = Append(@, best_worker)]
     /\ n_dispatched' = [n_dispatched EXCEPT ![best_worker] = @ + 1]
     /\ bbox_log' = IF bbox # <<>>
                  THEN [bbox_log EXCEPT ![best_worker] = Append(@, bbox)]
                  ELSE bbox_log
     /\ read_from' = [read_from EXCEPT ![payload.req_id] = client_id]
     /\ rr_log' = Append(rr_log, best_worker)
     /\ UNCHANGED <<workers, worker_list, process_map, ready_event>>

\* The orders in which iterating the set self.workers can yield its members
\* (hash order of the identities: fixed by neither their values nor the loads)
IterOrders(S) ==
  {seq \in [1..Cardinality(S) -> S] :
     \A i, j \in 1..Cardinality(S) : i # j => seq[i] # seq[j]}

\* min(self.worker_load[w] for w in self.workers)
min_load ==
  CHOOSE m \in {worker_load[w] : w \in workers} :
    \A w \in workers : m <= worker_load[w]

\* min(self.workers, key=lambda w: self.worker_load[w]): the first member, in
\* iteration order, whose load is minimal
min_by_load(order) ==
  order[CHOOSE i \in 1..Len(order) :
          /\ worker_load[order[i]] = min_load
          /\ \A j \in 1..(i - 1) : worker_load[order[j]] # min_load]

\* req_id.split('_')[0]: the pid that prefixes the req_id; one ClientProxy per
\* process, so the pid stands for the client.
pid_of(req_id) == req_id[1]

\* Mutant: the mapped worker is kept only while it is a least loaded one.
old_dispatch_request_strict(client_id, payload, order) ==
  LET pid == pid_of(payload.req_id)
      target_worker == Get(process_map, pid, 0)
      keep == /\ target_worker # 0
              /\ target_worker \in workers
              /\ worker_load[target_worker] <= min_load
      best_worker == IF keep THEN target_worker ELSE min_by_load(order)
  IN /\ process_map' = IF keep THEN process_map
                       ELSE Put(process_map, pid, best_worker)
     /\ worker_history' =
          [worker_history EXCEPT ![best_worker] = deque_append(@, payload.bbox)]
     /\ worker_load' = load_incr(worker_load, best_worker)
     /\ to_worker' = Send(to_worker, best_worker,
                          Put(payload, "client_id", client_id))
     /\ n_dispatched' = [n_dispatched EXCEPT ![best_worker] = @ + 1]
     /\ bbox_log' = [bbox_log EXCEPT ![best_worker] = Append(@, payload.bbox)]
     /\ rr_log' = Append(rr_log, best_worker)
     /\ UNCHANGED <<workers, worker_list, rr_counter, ready_event>>

\* SpatialScheduler.old_dispatch_request (process affinity with least-load
\* fallback), from step 1 on (a worker is available); order is the order in
\* which the set of workers is iterated by min().
old_dispatch_request(client_id, payload, order) ==
  LET pid == pid_of(payload.req_id)
      target_worker == Get(process_map, pid, 0)
      keep == /\ target_worker # 0
              /\ target_worker \in workers
              /\ worker_load[target_worker] <= min_load + LOAD_TOLERANCE
      best_worker == IF keep THEN target_worker ELSE min_by_load(order)
  IN /\ process_map' = IF keep THEN process_map
                       ELSE Put(process_map, pid, best_worker)
     /\ worker_history' =
          [worker_history EXCEPT ![best_worker] = deque_append(@, payload.bbox)]
     /\ worker_load' = load_incr(worker_load, best_worker)
     /\ to_worker' = Send(to_worker, best_worker,
                          Put(payload, "client_id", client_id))
     /\ n_dispatched' = [n_dispatched EXCEPT ![best_worker] = @ + 1]
     /\ bbox_log' = [bbox_log EXCEPT ![best_worker] = Append(@, payload.bbox)]
     /\ rr_log' = Append(rr_log, best_worker)
     /\ UNCHANGED <<workers, worker_list, rr_counter, ready_event>>

\* Mutant: the RESULT is forwarded but the sender's load is left as it is.
_forward_result_keep_load(worker_id, payload) ==
  /\ worker_load' = worker_load
  /\ to_client' = Send(to_client, payload.client_id, payload)
  /\ n_results' = [n_results EXCEPT ![worker_id] = @ + 1]

\* Mutant: the decrement does not saturate at 0.
_forward_result_unsaturated(worker_id, payload) ==
  /\ worker_load' =
       IF worker_id \in DOMAIN worker_load
       THEN [worker_load EXCEPT ![worker_id] = @ - 1]
       ELSE worker_load
  /\ to_client' = Send(to_client, payload.client_id, payload)
  /\ n_results' = [n_results EXCEPT ![worker_id] = @ + 1]

\* Mutant: the RESULT is forwarded to a fixed client, whatever client_id says.
_forward_result_misrouted(worker_id, payload) ==
  /\ worker_load' =
       IF worker_id \in DOMAIN worker_load
       THEN [worker_load EXCEPT ![worker_id] = Max(0, @ - 1)]
       ELSE worker_load
  /\ to_client' = Send(to_client, FirstClient, payload)
  /\ n_results' = [n_results EXCEPT ![worker_id] = @ + 1]

\* Mutant: the membership test is missing, so the defaultdict makes an entry
\* for any sender.
_forward_result_unguarded(worker_id, payload) ==
  /\ worker_load' = [w \in DOMAIN worker_load \cup {worker_id} |->
                       IF w = worker_id
                       THEN Max(0, Get(worker_load, w, 0) - 1)
                       ELSE worker_load[w]]
  /\ to_client' = Send(to_client, payload.client_id, payload)
  /\ n_results' = [n_results EXCEPT ![worker_id] = @ + 1]

\* SpatialScheduler._forward_result
_forward_result(worker_id, payload) ==
  /\ worker_load' =
       IF worker_id \in DOMAIN worker_load
       THEN [worker_load EXCEPT ![worker_id] = Max(0, @ - 1)]
       ELSE worker_load
  /\ to_client' = Send(to_client, payload.client_id, payload)
  /\ n_results' = [n_results EXCEPT ![worker_id] = @ + 1]

\* run(): a READY frame from identity w
SchedReady(w) ==
  /\ sched_pc = "recv"
  /\ to_sched[w] # <<>>
  /\ Head(to_sched[w]).type = "READY"
  /\ to_sched' = Pop(to_sched, w)
  /\ _handle_worker_ready(w)
  /\ frames' = IF w \in workers /\ worker_load[w] > 0
               THEN [frames EXCEPT !["REPEAT"] = @ + 1]
               ELSE frames
  /\ UNCHANGED <<rr_counter, worker_history, process_map, sched_pc, pending,
                 to_worker, to_client, worker_vars, client_vars, shm,
                 req_status, completed_by, dispatched, n_dispatched, bbox_log, n_results,
                 read_from, unlink_log, skipped>>
  /\ UNCHANGED array_vars
  /\ UNCHANGED call

\* run(): a READ frame from identity c.  With no worker registered the call
\* suspends at ready_event.wait(); run() awaits the call, so nothing else is
\* received until the event is set and the call resumes.
SchedRead(c) ==
  /\ IF sched_pc = "wait_ready"
     THEN /\ ready_event
          /\ pending.sender = c
          /\ _dispatch_request(c, pending.payload)
          /\ sched_pc' = "recv"
          /\ pending' = NoMsg
          /\ UNCHANGED to_sched
     ELSE /\ to_sched[c] # <<>>
          /\ Head(to_sched[c]).type = "READ"
          /\ to_sched' = Pop(to_sched, c)
          /\ IF workers = {}
             THEN /\ sched_pc' = "wait_ready"
                  /\ pending' = [type |-> "READ", sender |-> c,
                                 payload |-> Head(to_sched[c])]
                  /\ UNCHANGED <<workers, worker_list, rr_counter,
                                 worker_history, worker_load, process_map,
                                 ready_event, to_worker, dispatched,
                                 n_dispatched, bbox_log, read_from, rr_log>>
             ELSE /\ _dispatch_request(c, Head(to_sched[c]))
                  /\ UNCHANGED <<sched_pc, pending>>
  /\ UNCHANGED <<to_client, worker_vars, client_vars, shm, req_status,
                 completed_by, n_results, unlink_log, skipped, frames>>
  /\ UNCHANGED array_vars
  /\ UNCHANGED call

\* run() with the READ branch calling old_dispatch_request: a READ frame from
\* identity c.  The call suspends at ready_event.wait() like _dispatch_request.
SchedReadA(c) ==
  /\ IF sched_pc = "wait_ready"
     THEN /\ ready_event
          /\ pending.sender = c
          /\ \E order \in IterOrders(workers) :
               old_dispatch_request(c, pending.payload, order)
          /\ sched_pc' = "recv"
          /\ pending' = NoMsg
          /\ UNCHANGED to_sched
     ELSE /\ to_sched[c] # <<>>
          /\ Head(to_sched[c]).type = "READ"
          /\ to_sched' = Pop(to_sched, c)
          /\ IF workers = {}
             THEN /\ sched_pc' = "wait_ready"
                  /\ pending' = [type |-> "READ", sender |-> c,
                                 payload |-> Head(to_sched[c])]
                  /\ UNCHANGED <<workers, worker_list, rr_counter,
                                 worker_history, worker_load, process_map,
                                 ready_event, to_worker, n_dispatched, bbox_log, rr_log>>
             ELSE /\ \E order \in IterOrders(workers) :
                       old_dispatch_request(c, Head(to_sched[c]), order)
                  /\ UNCHANGED <<sched_pc, pending>>
  /\ UNCHANGED <<to_client, worker_vars, client_vars, shm, req_status,
                 completed_by, dispatched, n_results, read_from, unlink_log,
                 skipped, frames, array_vars>>
  /\ UNCHANGED call

\* run(): a RESULT frame from identity w
SchedResult(w) ==
  /\ sched_pc = "recv"
  /\ to_sched[w] # <<>>
  /\ Head(to_sched[w]).type = "RESULT"
  /\ to_sched' = Pop(to_sched, w)
  /\ _forward_result(w, Head(to_sched[w]))
  /\ UNCHANGED <<workers, worker_list, rr_counter, worker_history, process_map,
                 ready_event, sched_pc, pending, to_worker, worker_vars,
                 client_vars, shm, req_status, completed_by, dispatched,
                 n_dispatched, bbox_log, read_from, unlink_log, skipped, frames>>
  /\ UNCHANGED <<rr_log, array_vars>>
  /\ UNCHANGED call

\* =============================================================== worker
\* VolumeWorker._fast_fill: the buffer contents after filling with value
_fast_fill(value) == Filled(value)

\* RESULT record built by VolumeWorker._process_request
result_msg(req, status, error) ==
  [type |-> "RESULT", client_id |-> req.client_id, req_id |-> req.req_id,
   status |-> status, error |-> error]

\* VolumeWorker.run up to the loop: connect and send READY
WorkerStart(w) ==
  /\ wpc[w] = "init"
  /\ wpc' = [wpc EXCEPT ![w] = "idle"]
  /\ to_sched' = Send(to_sched, w, [type |-> "READY", parallel |-> 4])
  /\ UNCHANGED <<sched_vars, to_worker, to_client, wreq, client_vars, shm,
                 hist_vars>>
  /\ UNCHANGED <<rr_log, array_vars>>
  /\ UNCHANGED call

\* Mutant: the worker answers OK as soon as it has attached, before the fill
\* and the volume read.
WorkerAttach_early_ok(w) ==
  /\ wpc[w] = "idle"
  /\ to_worker[w] # <<>>
  /\ LET req == Head(to_worker[w])
     IN /\ to_worker' = Pop(to_worker, w)
        /\ IF shm[req.shm_name] = Absent
           THEN /\ to_sched' = Send(to_sched, w, result_msg(req, "ERROR", "attach"))
                /\ UNCHANGED <<wpc, wreq>>
           ELSE /\ wpc' = [wpc EXCEPT ![w] = "busy"]
                /\ wreq' = [wreq EXCEPT ![w] = req]
                /\ to_sched' = Send(to_sched, w, result_msg(req, "OK", ""))
  /\ UNCHANGED <<sched_vars, to_client, client_vars, shm, hist_vars>>
  /\ UNCHANGED <<rr_log, array_vars>>
  /\ UNCHANGED call

\* Mutant: the worker opens the buffer create-if-absent.
WorkerAttach_create(w) ==
  /\ wpc[w] = "idle"
  /\ to_worker[w] # <<>>
  /\ LET req == Head(to_worker[w])
     IN /\ to_worker' = Pop(to_worker, w)
        /\ wpc' = [wpc EXCEPT ![w] = "busy"]
        /\ wreq' = [wreq EXCEPT ![w] = req]
        /\ shm' = IF shm[req.shm_name] = Absent
                  THEN [shm EXCEPT ![req.shm_name] = Filled(0)]
                  ELSE shm
  /\ UNCHANGED <<sched_vars, to_sched, to_client, client_vars, hist_vars>>
  /\ UNCHANGED <<rr_log, array_vars>>
  /\ UNCHANGED call

\* The keys _process_request reads with req[...] before its try block
RequiredFields ==
  {"client_id", "req_id", "shm_name", "shape", "dtype", "order", "bbox"}

\* run() takes a READ and calls _process_request.  The req[...] reads come
\* before the try block: a missing key raises KeyError out of
\* _process_request into run(), whose except prints the traceback and
\* returns, so the loop is over and no RESULT is sent.  Step 1,
\* SharedMemory(name=shm_name), attaches to an existing buffer and raises
\* FileNotFoundError when there is none; the except branch then answers ERROR.
WorkerAttach(w) ==
  /\ wpc[w] = "idle"
  /\ to_worker[w] # <<>>
  /\ LET req == Head(to_worker[w])
     IN /\ to_worker' = Pop(to_worker, w)
        /\ IF ~(RequiredFields \subseteq DOMAIN req)
           THEN /\ wpc' = [wpc EXCEPT ![w] = "exited"]
                /\ UNCHANGED <<wreq, to_sched>>
           ELSE IF shm[req.shm_name] = Absent
           THEN /\ to_sched' = Send(to_sched, w, result_msg(req, "ERROR", "attach"))
                /\ UNCHANGED <<wpc, wreq>>
           ELSE /\ wpc' = [wpc EXCEPT ![w] = "busy"]
                /\ wreq' = [wreq EXCEPT ![w] = req]
                /\ UNCHANGED to_sched
  /\ UNCHANGED <<sched_vars, to_client, client_vars, shm, hist_vars>>
  /\ UNCHANGED <<rr_log, array_vars>>
  /\ UNCHANGED call

\* A write through the worker's mapping: visible under the name only while
\* the name is still linked.
write_shm(name, contents) ==
  IF shm[name] = Absent THEN shm ELSE [shm EXCEPT ![name] = contents]

\* Mutant: the worker unlinks the buffer when it closes its handle.
WorkerFinish_unlink(w, cov) ==
  /\ wpc[w] = "busy"
  /\ LET req == wreq[w]
     IN /\ IF shm[req.shm_name] # Absent
           THEN /\ shm' = [shm EXCEPT ![req.shm_name] = Absent]
                /\ unlink_log' = [unlink_log EXCEPT ![req.shm_name] =
                                    Append(@, <<w, "worker">>)]
           ELSE UNCHANGED <<shm, unlink_log>>
        /\ to_sched' = Send(to_sched, w, result_msg(req, "OK", ""))
  /\ wpc' = [wpc EXCEPT ![w] = "idle"]
  /\ wreq' = [wreq EXCEPT ![w] = NoMsg]
  /\ UNCHANGED <<sched_vars, to_worker, to_client, client_vars, req_status,
                 completed_by, dispatched, n_dispatched, bbox_log, n_results, read_from,
                 skipped, frames>>
  /\ UNCHANGED <<rr_log, array_vars>>
  /\ UNCHANGED call

\* _process_request, steps 2-5: fill with bg_color, let the volume library
\* write the voxels it decodes (cov), close the handle, answer OK.
WorkerFinish(w, cov) ==
  /\ wpc[w] = "busy"
  /\ LET req == wreq[w]
         bg_color == Get(req, "bg_color", 0)
         filled == _fast_fill(bg_color)
     IN /\ shm' = write_shm(req.shm_name,
                    [v \in Voxels |-> IF v \in cov THEN volume_data(v)
                                      ELSE filled[v]])
        /\ to_sched' = Send(to_sched, w, result_msg(req, "OK", ""))
  /\ wpc' = [wpc EXCEPT ![w] = "idle"]
  /\ wreq' = [wreq EXCEPT ![w] = NoMsg]
  /\ UNCHANGED <<sched_vars, to_worker, to_client, client_vars, hist_vars>>
  /\ UNCHANGED <<rr_log, array_vars>>
  /\ UNCHANGED call

\* _process_request, steps 2-3 when the volume read raises after the fill:
\* the except branch answers ERROR (the handle is not closed, nothing is
\* unlinked).
WorkerReadFails(w) ==
  /\ wpc[w] = "busy"
  /\ LET req == wreq[w]
         bg_color == Get(req, "bg_color", 0)
     IN /\ shm' = write_shm(req.shm_name, _fast_fill(bg_color))
        /\ to_sched' = Send(to_sched, w, result_msg(req, "ERROR", "read"))
  /\ wpc' = [wpc EXCEPT ![w] = "idle"]
  /\ wreq' = [wreq EXCEPT ![w] = NoMsg]
  /\ UNCHANGED <<sched_vars, to_worker, to_client, client_vars, hist_vars>>
  /\ UNCHANGED <<rr_log, array_vars>>
  /\ UNCHANGED call

\* The worker process dies (supervisor signal): no RESULT for the request in
\* hand, no READ is taken from its socket any more.
WorkerCrash(w) ==
  /\ wpc[w] \in {"idle", "busy"}
  /\ Cardinality({x \in Workers : wpc[x] = "dead"}) < MaxCrashes
  /\ wpc' = [wpc EXCEPT ![w] = "dead"]
  /\ wreq' = [wreq EXCEPT ![w] = NoMsg]
  /\ UNCHANGED <<sched_vars, net_vars, client_vars, shm, hist_vars>>
  /\ UNCHANGED <<rr_log, array_vars>>
  /\ UNCHANGED call

\* =============================================================== client
\* The request the client is waiting for / issued last
awaited(c) == <<c, issued[c]>>

RECURSIVE SumOver(_, _)
SumOver(f, S) ==
  IF S = {} THEN 0
  ELSE LET x == CHOOSE y \in S : TRUE IN f[x] + SumOver(f, S \ {x})

\* Mutant: the error path forgets the buffer.
_manual_cleanup_skipped(c, shm_name) == UNCHANGED <<shm, unlink_log>>

\* ClientProxy._manual_cleanup: attach by name, close, unlink; any failure
\* (no such name) is swallowed.
_manual_cleanup(c, shm_name) ==
  IF shm[shm_name] # Absent
  THEN /\ shm' = [shm EXCEPT ![shm_name] = Absent]
       /\ unlink_log' = [unlink_log EXCEPT ![shm_name] = Append(@, <<c, "cleanup">>)]
  ELSE UNCHANGED <<shm, unlink_log>>

\* ClientProxy._send_request: the READ record of request r
read_msg(r) ==
  [type |-> "READ", req_id |-> r, bbox |-> bbox_of(r[2]),
   shape |-> ReadShape, dtype |-> "uint8", shm_name |-> r,
   order |-> "F"]

\* ClientProxy.__getitem__ up to the wait: _init_shared_buffer creates the
\* buffer and fills it with background_color, _send_request sends the READ.
ClientRead(c) ==
  /\ cpc[c] = "idle"
  /\ np_prod(ReadShape) # 0
  /\ SumOver(issued, Clients) < MaxReads
  /\ LET r == <<c, issued[c] + 1>>
     IN /\ shm' = [shm EXCEPT ![r] = Filled(background_color(c))]
        /\ to_sched' = Send(to_sched, c, read_msg(r))
        /\ req_status' = [req_status EXCEPT ![r] = "waiting"]
  /\ issued' = [issued EXCEPT ![c] = @ + 1]
  /\ cpc' = [cpc EXCEPT ![c] = "waiting"]
  /\ UNCHANGED <<sched_vars, to_worker, to_client, worker_vars, completed_by,
                 dispatched, n_dispatched, bbox_log, n_results, read_from, unlink_log,
                 skipped, frames>>
  /\ UNCHANGED <<rr_log, array_vars>>
  /\ UNCHANGED call

\* Mutant: the req_id of the record is not compared.
_wait_response_any(req_id, resp) ==
  IF resp.status = "OK" THEN "return" ELSE "raise"

\* ClientProxy._wait_response on one received record: "return" (success),
\* "raise" (worker error) or "continue" (mismatched req_id, keep polling)
_wait_response(req_id, resp) ==
  IF resp.req_id = req_id
  THEN IF resp.status = "OK" THEN "return" ELSE "raise"
  ELSE "continue"

\* _wait_response reads a RESULT of another request: warn and keep waiting
ClientRecvSkip(c) ==
  /\ cpc[c] = "waiting"
  /\ to_client[c] # <<>>
  /\ _wait_response(awaited(c), Head(to_client[c])) = "continue"
  /\ to_client' = Pop(to_client, c)
  /\ skipped' = skipped \cup {Head(to_client[c]).req_id}
  /\ UNCHANGED <<sched_vars, to_sched, to_worker, worker_vars, client_vars,
                 shm, req_status, completed_by, dispatched, n_dispatched, bbox_log,
                 n_results, read_from, unlink_log, frames>>
  /\ UNCHANGED <<rr_log, array_vars>>
  /\ UNCHANGED call

\* AutoReleaseArray.__new__: the array object handed to the caller
AutoReleaseArray__new__ == [_owns_memory |-> TRUE, alive |-> TRUE]

\* Mutant: a derived array takes over the _owns_memory flag of its parent.
__array_finalize___inherits(obj) ==
  [_owns_memory |-> obj._owns_memory, alive |-> TRUE]

\* AutoReleaseArray.__array_finalize__(self, obj) for obj not None: the array
\* derived from obj (slice, reshape, view, copy)
__array_finalize__(obj) == [_owns_memory |-> FALSE, alive |-> TRUE]

\* AutoReleaseArray.__del__: whether close() and unlink() are called
__del__(self) == self._owns_memory

\* _wait_response returns; AutoReleaseArray.__new__ attaches the buffer and
\* the owner array is returned.  Should the name be missing, __new__ raises
\* and the except branch runs _manual_cleanup before re-raising.
ClientRecvOK(c) ==
  /\ cpc[c] = "waiting"
  /\ to_client[c] # <<>>
  /\ _wait_response(awaited(c), Head(to_client[c])) = "return"
  /\ to_client' = Pop(to_client, c)
  /\ cpc' = [cpc EXCEPT ![c] = "idle"]
  /\ completed_by' = [completed_by EXCEPT ![awaited(c)] = Head(to_client[c])]
  /\ req_status' = [req_status EXCEPT ![awaited(c)] =
                      IF shm[awaited(c)] # Absent THEN "returned" ELSE "error"]
  /\ arrays' = IF shm[awaited(c)] # Absent
               THEN [arrays EXCEPT ![awaited(c)] = <<AutoReleaseArray__new__>>]
               ELSE arrays
  /\ UNCHANGED <<sched_vars, to_sched, to_worker, worker_vars, issued, shm,
                 dispatched, n_dispatched, bbox_log, n_results, read_from, unlink_log,
                 skipped, frames, rr_log, shape_errors>>
  /\ UNCHANGED call

\* _wait_response raises RuntimeError("Worker Error: ..."); the except branch
\* of __getitem__ runs _manual_cleanup and re-raises.
ClientRecvError(c) ==
  /\ cpc[c] = "waiting"
  /\ to_client[c] # <<>>
  /\ _wait_response(awaited(c), Head(to_client[c])) = "raise"
  /\ to_client' = Pop(to_client, c)
  /\ _manual_cleanup(c, awaited(c))
  /\ cpc' = [cpc EXCEPT ![c] = "idle"]
  /\ completed_by' = [completed_by EXCEPT ![awaited(c)] = Head(to_client[c])]
  /\ req_status' = [req_status EXCEPT ![awaited(c)] = "error"]
  /\ UNCHANGED <<sched_vars, to_sched, to_worker, worker_vars, issued,
                 dispatched, n_dispatched, bbox_log, n_results, read_from, skipped, frames>>
  /\ UNCHANGED <<rr_log, array_vars>>
  /\ UNCHANGED call

\* Mutant: poll() without a timeout, so the elapsed time is looked at only
\* after a record has been received.
ClientTimeout_blocking_poll(c) ==
  /\ cpc[c] = "waiting"
  /\ to_client[c] # <<>>
  /\ _manual_cleanup(c, awaited(c))
  /\ cpc' = [cpc EXCEPT ![c] = "idle"]
  /\ req_status' = [req_status EXCEPT ![awaited(c)] = "timeout"]
  /\ UNCHANGED <<sched_vars, net_vars, worker_vars, issued, completed_by,
                 dispatched, n_dispatched, bbox_log, n_results, read_from, skipped, frames>>
  /\ UNCHANGED <<rr_log, array_vars>>
  /\ UNCHANGED call

\* _wait_response raises TimeoutError (no matching RESULT within the window);
\* the except branch of __getitem__ runs _manual_cleanup and re-raises.
ClientTimeout(c) ==
  /\ cpc[c] = "waiting"
  /\ _manual_cleanup(c, awaited(c))
  /\ cpc' = [cpc EXCEPT ![c] = "idle"]
  /\ req_status' = [req_status EXCEPT ![awaited(c)] = "timeout"]
  /\ UNCHANGED <<sched_vars, net_vars, worker_vars, issued, completed_by,
                 dispatched, n_dispatched, bbox_log, n_results, read_from, skipped, frames>>
  /\ UNCHANGED <<rr_log, array_vars>>
  /\ UNCHANGED call

\* The array objects derived from the one read returned that are still
\* referenced; each keeps that array alive through its base reference.
live_views(r) == {i \in 2..Len(arrays[r]) : arrays[r][i].alive}

\* AutoReleaseArray.__del__ of the array read returned, run when nothing
\* refers to it any more: close, then unlink (FileNotFoundError is swallowed).
Release(r) ==
  /\ req_status[r] = "returned"
  /\ live_views(r) = {}
  /\ req_status' = [req_status EXCEPT ![r] = "released"]
  /\ arrays' = [arrays EXCEPT ![r][1].alive = FALSE]
  /\ IF __del__(arrays[r][1]) /\ shm[r] # Absent
     THEN /\ shm' = [shm EXCEPT ![r] = Absent]
          /\ unlink_log' = [unlink_log EXCEPT ![r] = Append(@, <<r[1], "release">>)]
     ELSE UNCHANGED <<shm, unlink_log>>
  /\ UNCHANGED <<sched_vars, net_vars, worker_vars, client_vars, completed_by,
                 dispatched, n_dispatched, bbox_log, n_results, read_from, skipped, frames,
                 rr_log, shape_errors>>
  /\ UNCHANGED call

\* The user takes a slice / reshape / view of live array i of buffer r:
\* numpy builds the new array and calls __array_finalize__ on it.
MakeView(r, i) ==
  /\ i \in 1..Len(arrays[r])
  /\ arrays[r][i].alive
  /\ Len(arrays[r]) <= MaxViews
  /\ arrays' = [arrays EXCEPT ![r] = Append(@, __array_finalize__(arrays[r][i]))]
  /\ UNCHANGED <<sched_vars, net_vars, worker_vars, client_vars, shm, hist_vars,
                 rr_log, shape_errors>>
  /\ UNCHANGED call

\* AutoReleaseArray.__del__ of a derived array
ReleaseView(r, i) ==
  /\ i \in live_views(r)
  /\ arrays' = [arrays EXCEPT ![r][i].alive = FALSE]
  /\ IF __del__(arrays[r][i]) /\ shm[r] # Absent
     THEN /\ shm' = [shm EXCEPT ![r] = Absent]
          /\ unlink_log' = [unlink_log EXCEPT ![r] = Append(@, <<r[1], "view">>)]
     ELSE UNCHANGED <<shm, unlink_log>>
  /\ UNCHANGED <<sched_vars, net_vars, worker_vars, client_vars, req_status,
                 completed_by, dispatched, n_dispatched, bbox_log, n_results, read_from,
                 skipped, frames, rr_log, shape_errors>>
  /\ UNCHANGED call

\* Shapes with a zero axis (bbox.size3() + [num_channels])
EmptyShapes == {<<0, 1, 1, 1>>, <<NumVoxels, 0, 1, 1>>}

\* Mutant: the shape is looked at only after the buffer has been made.
ClientReadEmpty_after_init(c, shape) ==
  /\ cpc[c] = "idle"
  /\ shape_errors[c] < MaxShapeErrors
  /\ issued[c] < MaxReads
  /\ np_prod(shape) = 0
  /\ shape_errors' = [shape_errors EXCEPT ![c] = @ + 1]
  /\ shm' = [shm EXCEPT ![<<c, issued[c] + 1>>] = Filled(background_color(c))]
  /\ UNCHANGED <<sched_vars, net_vars, worker_vars, client_vars, hist_vars,
                 rr_log, arrays>>
  /\ UNCHANGED call

\* ClientProxy.__getitem__ on slices of an empty region: np.prod(shape) == 0
\* raises ValueError before _init_shared_buffer and _send_request.
ClientReadEmpty(c, shape) ==
  /\ cpc[c] = "idle"
  /\ shape_errors[c] < MaxShapeErrors
  /\ np_prod(shape) = 0
  /\ shape_errors' = [shape_errors EXCEPT ![c] = @ + 1]
  /\ UNCHANGED <<sched_vars, net_vars, worker_vars, client_vars, shm, hist_vars,
                 rr_log, arrays>>
  /\ UNCHANGED call

\* ========================================================= specification
SchedNext ==
  \/ \E w \in Workers : SchedReady(w)
  \/ \E c \in Clients : SchedRead(c)
  \/ \E w \in Workers : SchedResult(w)

WorkerNext ==
  \/ \E w \in Workers : WorkerStart(w)
  \/ \E w \in Workers : WorkerAttach(w)
  \/ \E w \in Workers, cov \in SUBSET Voxels : WorkerFinish(w, cov)
  \/ \E w \in Workers : WorkerReadFails(w)
  \/ \E w \in Workers : WorkerCrash(w)

ClientNext ==
  \/ \E c \in Clients : ClientRead(c)
  \/ \E c \in Clients : ClientRecvSkip(c)
  \/ \E c \in Clients : ClientRecvOK(c)
  \/ \E c \in Clients : ClientRecvError(c)
  \/ \E c \in Clients : ClientTimeout(c)
  \/ \E r \in ReqIds : Release(r)

Next == SchedNext \/ WorkerNext \/ ClientNext

Spec == Init /\ [][Next]_vars

\* Every process that can run keeps running: the scheduler's loop and each
\* worker's start-up are not starved.
FairSpec ==
  /\ Spec
  /\ WF_vars(SchedNext)
  /\ \A w \in Workers : WF_vars(WorkerStart(w))

\* ------------------------------------------------------------------------
\* The client library between its user and an arbitrary scheduler: the user
\* reads (empty regions too), derives arrays and drops them; the socket
\* delivers any RESULT record naming any request sent so far, or nothing.
PeerReply(c, r, status) ==
  /\ frames["RESULT"] < MaxResults
  /\ r[2] <= issued[r[1]]
  /\ to_client[c] = <<>>
  /\ frames' = [frames EXCEPT !["RESULT"] = @ + 1]
  /\ to_client' = Send(to_client, c,
                       [type |-> "RESULT", client_id |-> c, req_id |-> r,
                        status |-> status,
                        error |-> IF status = "OK" THEN "" ELSE "read"])
  /\ UNCHANGED <<sched_vars, to_sched, to_worker, worker_vars, client_vars,
                 shm, req_status, completed_by, dispatched, n_dispatched, bbox_log,
                 n_results, read_from, unlink_log, skipped, rr_log, array_vars>>
  /\ UNCHANGED call

UserNext ==
  \/ \E c \in Clients, shape \in EmptyShapes : ClientReadEmpty(c, shape)
  \/ \E r \in ReqIds, i \in 1..(MaxViews + 1) : MakeView(r, i)
  \/ \E r \in ReqIds, i \in 1..(MaxViews + 1) : ReleaseView(r, i)

ReplyNext ==
  \E c \in Clients, r \in ReqIds, status \in {"OK", "ERROR"} :
    PeerReply(c, r, status)

ClientSpec == Init /\ [][ClientNext \/ UserNext \/ ReplyNext]_vars

\* The clock runs: poll(timeout_ms) returns after at most timeout_ms and the
\* elapsed time is compared at the end of every iteration of _wait_response,
\* so a client that keeps waiting reaches its TimeoutError.
TimedSpec == ClientSpec /\ \A c \in Clients : WF_vars(ClientTimeout(c))

\* ------------------------------------------------------------------------
\* The scheduler against an arbitrary peer population: any worker identity
\* may send READY (again), any client a READ, any worker identity a RESULT
\* naming any request sent so far (an answer, a duplicate, or one nobody
\* asked for), one frame per peer in flight.  Only the frames differ from
\* Spec; the handlers are the same.
PeerReady(w) ==
  /\ frames["READY"] < MaxReady
  /\ to_sched[w] = <<>>
  /\ frames' = [frames EXCEPT !["READY"] = @ + 1]
  /\ to_sched' = Send(to_sched, w, [type |-> "READY", parallel |-> 4])
  /\ UNCHANGED <<sched_vars, to_worker, to_client, worker_vars, client_vars,
                 shm, req_status, completed_by, dispatched, n_dispatched, bbox_log,
                 n_results, read_from, unlink_log, skipped>>
  /\ UNCHANGED <<rr_log, array_vars>>
  /\ UNCHANGED call

PeerRead(c) ==
  /\ SumOver(issued, Clients) < MaxReads
  /\ to_sched[c] = <<>>
  /\ issued' = [issued EXCEPT ![c] = @ + 1]
  /\ to_sched' = Send(to_sched, c, read_msg(<<c, issued[c] + 1>>))
  /\ UNCHANGED <<sched_vars, to_worker, to_client, worker_vars, cpc, shm,
                 hist_vars>>
  /\ UNCHANGED <<rr_log, array_vars>>
  /\ UNCHANGED call

PeerResult(w, r) ==
  /\ frames["RESULT"] < MaxResults
  /\ r[2] <= issued[r[1]]
  /\ to_sched[w] = <<>>
  /\ frames' = [frames EXCEPT !["RESULT"] = @ + 1]
  /\ to_sched' = Send(to_sched, w,
                      [type |-> "RESULT", client_id |-> r[1], req_id |-> r,
                       status |-> "OK", error |-> ""])
  /\ UNCHANGED <<sched_vars, to_worker, to_client, worker_vars, client_vars,
                 shm, req_status, completed_by, dispatched, n_dispatched, bbox_log,
                 n_results, read_from, unlink_log, skipped>>
  /\ UNCHANGED <<rr_log, array_vars>>
  /\ UNCHANGED call

PeerNext ==
  \/ \E w \in Workers : PeerReady(w)
  \/ \E c \in Clients : PeerRead(c)
  \/ \E w \in Workers, r \in ReqIds : PeerResult(w, r)

SchedSpec == Init /\ [][SchedNext \/ PeerNext]_vars

\* ------------------------------------------------------------------------
\* The scheduler with old_dispatch_request as its READ handler.  Any worker
\* identity may send READY (again), any client a READ while others of its
\* READs are outstanding (MaxReadsA in all), and a worker answers the READs
\* forwarded to it one by one, at any later time or never.
PeerReadA(c) ==
  /\ SumOver(issued, Clients) < MaxReadsA
  /\ to_sched[c] = <<>>
  /\ issued' = [issued EXCEPT ![c] = @ + 1]
  /\ to_sched' = Send(to_sched, c, read_msg(<<c, issued[c] + 1>>))
  /\ UNCHANGED <<sched_vars, to_worker, to_client, worker_vars, cpc, shm,
                 hist_vars, rr_log, array_vars>>
  /\ UNCHANGED call

PeerAnswer(w) ==
  /\ to_worker[w] # <<>>
  /\ to_sched[w] = <<>>
  /\ to_worker' = Pop(to_worker, w)
  /\ to_sched' = Send(to_sched, w, result_msg(Head(to_worker[w]), "OK", ""))
  /\ UNCHANGED <<sched_vars, to_client, worker_vars, client_vars, shm,
                 hist_vars, rr_log, array_vars>>
  /\ UNCHANGED call

StrategyANext ==
  \/ \E w \in Workers : SchedReady(w)
  \/ \E c \in Clients : SchedReadA(c)
  \/ \E w \in Workers : SchedResult(w)
  \/ \E w \in Workers : PeerReady(w)
  \/ \E c \in Clients : PeerReadA(c)
  \/ \E w \in Workers : PeerAnswer(w)

StrategyASpec == Init /\ [][StrategyANext]_vars

\* ------------------------------------------------------------------------
\* The scheduler and the workers against arbitrary client peers: any peer of
\* the ROUTER socket may send a READ record, with or without the keys that
\* ClientProxy._send_request puts in, naming a buffer it has created or not.
Drop(rec, keys) == [k \in DOMAIN rec \ keys |-> rec[k]]

PeerReadRaw(c, omit, create) ==
  /\ SumOver(issued, Clients) < MaxReads
  /\ to_sched[c] = <<>>
  /\ LET r == <<c, issued[c] + 1>>
     IN /\ to_sched' = Send(to_sched, c, Drop(read_msg(r), omit))
        /\ shm' = IF create THEN [shm EXCEPT ![r] = Filled(background_color(c))]
                  ELSE shm
  /\ issued' = [issued EXCEPT ![c] = @ + 1]
  /\ UNCHANGED <<sched_vars, to_worker, to_client, worker_vars, cpc, hist_vars>>
  /\ UNCHANGED <<rr_log, array_vars>>
  /\ UNCHANGED call

RawPeerNext ==
  \E c \in Clients, omit \in {{}, {"shape"}}, create \in BOOLEAN :
    PeerReadRaw(c, omit, create)

WorkerSpec == Init /\ [][SchedNext \/ WorkerNext \/ RawPeerNext]_vars

\* ================================================================ claims
NoCrash == \A w \in Workers : wpc[w] # "dead"

\* The READ of request r is held by the suspended _dispatch_request call
PendingRead(r) == sched_pc = "wait_ready" /\ pending.payload.req_id = r

\* A READY frame has arrived at the scheduler's socket
ReadyArrived ==
  \E w \in Workers : to_sched[w] # <<>> /\ Head(to_sched[w]).type = "READY"

\* The scheduler has taken the READ of request r off its socket
Received(r) ==
  /\ r[2] <= issued[r[1]]
  /\ \A i \in 1..Len(to_sched[r[1]]) : to_sched[r[1]][i].req_id # r

\* C1: a READ received while no worker is registered is kept, and once a
\* READY has arrived at the scheduler's socket that READ is eventually
\* dispatched to a worker.
C1_NoWorkerDeferral ==
  \A r \in ReqIds : (PendingRead(r) /\ ReadyArrived) ~> (dispatched[r] # <<>>)

\* C2: with no worker crashed, each worker's load equals the number of READs
\* dispatched to it minus the number of RESULTs received from it, and all
\* loads are 0 once every dispatched request has been answered.
C2_LoadConservation ==
  NoCrash =>
    /\ \A w \in Workers :
         Get(worker_load, w, 0) = n_dispatched[w] - n_results[w]
    /\ (\A w \in Workers : n_results[w] = n_dispatched[w])
          => \A w \in DOMAIN worker_load : worker_load[w] = 0

C2_Witness ==
  /\ NoCrash
  /\ \E w \in Workers :
       n_dispatched[w] = 2 /\ n_results[w] = 1 /\ worker_load[w] = 1

\* C3: load[w] >= 0 always; a dispatch to w adds exactly 1 to load[w]; a
\* RESULT received from w takes 1 off load[w] unless it is 0, then it stays 0.
C3_LoadNonNegative ==
  /\ [](\A w \in DOMAIN worker_load : worker_load[w] >= 0)
  /\ [][\A w \in Workers :
          /\ n_dispatched'[w] = n_dispatched[w] + 1
               => worker_load'[w] = Get(worker_load, w, 0) + 1
          /\ (n_results'[w] = n_results[w] + 1 /\ w \in DOMAIN worker_load)
               => worker_load'[w] =
                    IF worker_load[w] = 0 THEN 0 ELSE worker_load[w] - 1]_vars

\* a RESULT was received from a worker whose load was already 0
C3_Witness ==
  \E w \in DOMAIN worker_load :
    n_dispatched[w] >= 1 /\ n_results[w] > n_dispatched[w] /\ worker_load[w] = 0

\* C4: every READ the scheduler has handled was forwarded once, to one
\* worker; a READ still held or not yet received was forwarded to none; every
\* copy in flight is at that one worker; a forward is never redone.
C4_AtMostOneWorker ==
  /\ [](\A r \in ReqIds :
          /\ Len(dispatched[r]) <= 1
          /\ (Received(r) /\ ~PendingRead(r)) => Len(dispatched[r]) = 1
          /\ ~Received(r) => dispatched[r] = <<>>
          /\ \A w \in Workers :
               /\ \A i \in 1..Len(to_worker[w]) :
                    to_worker[w][i].req_id = r => dispatched[r] = <<w>>
               /\ Len(SelectSeq(to_worker[w], LAMBDA m : m.req_id = r)) <= 1
               /\ (wpc[w] = "busy" /\ wreq[w].req_id = r) => dispatched[r] = <<w>>)
  /\ [][\A r \in ReqIds :
          dispatched[r] # <<>> => dispatched'[r] = dispatched[r]]_vars

\* the chosen worker died with the request, the client timed out, and the
\* request stays where it was sent
C4_Witness ==
  \E r \in ReqIds :
    /\ req_status[r] = "timeout"
    /\ Len(dispatched[r]) = 1
    /\ wpc[dispatched[r][1]] = "dead"
    /\ \E i \in 1..Len(to_worker[dispatched[r][1]]) :
         to_worker[dispatched[r][1]][i].req_id = r

\* The client's read of request r has ended: array returned (and perhaps
\* released since) or error raised
Raised(r) == req_status[r] \in {"timeout", "error"}
Returned(r) == req_status[r] \in {"returned", "released"}

\* C5: a read that created a buffer either returns the owner array of that
\* buffer, and only on a RESULT with its own req_id and status OK, or raises
\* (timeout, or the worker's ERROR with its message) with the buffer's name
\* gone from the namespace.
C5_ResultOrNoLeak ==
  \A r \in ReqIds :
    /\ Raised(r) => shm[r] = Absent
    /\ req_status[r] = "returned" =>
         /\ shm[r] # Absent
         /\ completed_by[r] = [type |-> "RESULT", client_id |-> r[1],
                               req_id |-> r, status |-> "OK", error |-> ""]
    /\ req_status[r] = "error" =>
         /\ completed_by[r].req_id = r
         /\ completed_by[r].status = "ERROR"
         /\ completed_by[r].error \in {"attach", "read"}
    /\ req_status[r] = "timeout" => completed_by[r] = NoMsg

C5_Witness ==
  \E r1, r2, r3 \in ReqIds :
    /\ req_status[r1] = "returned"
    /\ req_status[r2] = "error" /\ completed_by[r2].error = "read"
    /\ req_status[r3] = "timeout"

\* C6: once the client has timed out on r and unlinked its buffer, no buffer
\* of that name exists again, whatever a worker does with r; the only step
\* that makes a name exist is the client's read creating its fresh buffer.
C6_TimedOutNoLeak ==
  /\ [](\A r \in ReqIds : req_status[r] = "timeout" => shm[r] = Absent)
  /\ [][\A r \in ReqIds :
          (shm[r] = Absent /\ shm'[r] # Absent)
            => (req_status[r] = "unsent" /\ req_status'[r] = "waiting")]_vars

\* a worker took up r after the client had timed out and unlinked
C6_Witness ==
  \E r \in ReqIds, w \in Workers :
    /\ req_status[r] = "timeout"
    /\ \E i \in 1..Len(to_sched[w]) :
         /\ to_sched[w][i].type = "RESULT"
         /\ to_sched[w][i].req_id = r
         /\ to_sched[w][i].error = "attach"

\* C7: a buffer is created once, by the client's read, and unlinked once, by
\* that client: by the owner array's release after a successful read, by the
\* client's cleanup after a failed one, and by nobody while the read is in
\* progress or the owner array is alive.
C7_UnlinkedOnceByOwner ==
  /\ [](\A r \in ReqIds :
          /\ Len(unlink_log[r]) <= 1
          /\ \A i \in 1..Len(unlink_log[r]) : unlink_log[r][i][1] = r[1]
          /\ Raised(r) => unlink_log[r] = << <<r[1], "cleanup">> >>
          /\ req_status[r] = "released" => unlink_log[r] = << <<r[1], "release">> >>
          /\ req_status[r] \in {"waiting", "returned"}
               => (unlink_log[r] = <<>> /\ shm[r] # Absent)
          /\ req_status[r] = "unsent" => (unlink_log[r] = <<>> /\ shm[r] = Absent))
  /\ [][\A r \in ReqIds :
          (shm[r] = Absent /\ shm'[r] # Absent)
            => (unlink_log[r] = <<>> /\ cpc[r[1]] = "idle"
                /\ cpc'[r[1]] = "waiting")]_vars

C7_Witness ==
  \E r1, r2 \in ReqIds :
    /\ req_status[r1] = "released"
    /\ req_status[r2] = "timeout"
    /\ \E w \in Workers :
         \E i \in 1..Len(to_sched[w]) :
           /\ to_sched[w][i].type = "RESULT"
           /\ to_sched[w][i].req_id = r2
           /\ to_sched[w][i].status = "OK"

\* C8: a RESULT whose req_id is not the awaited one is consumed without
\* ending the wait and without touching any buffer; a read returns only on
\* the OK RESULT of its own req_id and fails only on the ERROR RESULT of its
\* own req_id (or by timeout).
C8_MismatchSkipped ==
  /\ [](\A r \in ReqIds :
          /\ Returned(r) =>
               (completed_by[r].req_id = r /\ completed_by[r].status = "OK")
          /\ req_status[r] = "error" => completed_by[r].req_id = r)
  /\ [][\A c \in Clients :
          ( /\ cpc[c] = "waiting"
            /\ to_client[c] # <<>>
            /\ Head(to_client[c]).req_id # awaited(c)
            /\ to_client'[c] = Tail(to_client[c]) )
          => ( /\ cpc'[c] = "waiting"
               /\ issued' = issued
               /\ req_status' = req_status
               /\ shm' = shm )]_vars

\* the late RESULT of a timed-out request was skipped during the next read,
\* which then returned
C8_Witness ==
  \E c \in Clients :
    /\ issued[c] >= 2
    /\ req_status[<<c, 1>>] = "timeout"
    /\ <<c, 1>> \in skipped
    /\ req_status[<<c, 2>>] = "returned"

\* C9: in the array returned to the client every voxel that the volume read
\* did not write equals the background colour of the client's volume.
C9_BackgroundCoverage ==
  \A r \in ReqIds :
    (req_status[r] = "returned" /\ shm[r] # Absent) =>
      \A v \in Voxels :
        shm[r][v] # volume_data(v) => shm[r][v] = background_color(r[1])

\* C10: the READ of r is forwarded with client_id set to the identity it came
\* from, the worker's RESULT carries that client_id, and the RESULT is queued
\* for that identity only.
C10_ResultToOrigin ==
  \A r \in ReqIds :
    /\ read_from[r] # 0 => read_from[r] = r[1]
    /\ \A w \in Workers :
         /\ \A i \in 1..Len(to_worker[w]) :
              to_worker[w][i].req_id = r => to_worker[w][i].client_id = read_from[r]
         /\ (wpc[w] = "busy" /\ wreq[w].req_id = r) => wreq[w].client_id = read_from[r]
         /\ \A i \in 1..Len(to_sched[w]) :
              (to_sched[w][i].type = "RESULT" /\ to_sched[w][i].req_id = r)
                => to_sched[w][i].client_id = read_from[r]
    /\ \A c \in Clients :
         \A i \in 1..Len(to_client[c]) :
           to_client[c][i].req_id = r => (read_from[r] = c /\ to_client[c][i].client_id = c)

\* RESULTs of two different clients have been forwarded
C10_Witness ==
  \E c1, c2 \in Clients :
    /\ c1 # c2
    /\ to_client[c1] # <<>>
    /\ to_client[c2] # <<>>

\* C11: whenever a worker takes a READ off its socket it stays in its loop,
\* and unless it goes on to fill the buffer it answers that request with a
\* RESULT of status ERROR.
C11_ErrorAndContinue ==
  [][\A w \in Workers :
       (to_worker[w] # <<>> /\ to_worker'[w] = Tail(to_worker[w]))
         => /\ wpc'[w] \in {"idle", "busy"}
            /\ wpc'[w] = "idle" =>
                 /\ Len(to_sched'[w]) = Len(to_sched[w]) + 1
                 /\ LET m == to_sched'[w][Len(to_sched'[w])]
                    IN /\ m.type = "RESULT"
                       /\ m.status = "ERROR"
                       /\ m.req_id = Head(to_worker[w]).req_id]_vars

\* C12: every read call that is waiting for its RESULT ends, by returning or
\* by raising; it has ended by TimeoutError when no RESULT of its req_id was
\* delivered.
C12_ReadTerminates ==
  /\ \A c \in Clients : (cpc[c] = "waiting") ~> (cpc[c] = "idle")
  /\ [](\A r \in ReqIds :
          /\ (r[2] < issued[r[1]] \/ (r[2] = issued[r[1]] /\ cpc[r[1]] = "idle"))
               => (Returned(r) \/ Raised(r))
          /\ req_status[r] = "timeout" => completed_by[r] = NoMsg)

\* a read timed out with nothing delivered, the next one after the RESULT of
\* the first had arrived late and been skipped
C12_Witness ==
  /\ \E c \in Clients :
       /\ req_status[<<c, 1>>] = "timeout"
       /\ req_status[<<c, 2>>] = "timeout"
       /\ <<c, 1>> \in skipped

\* Worker w is attached to the buffer of request r and has not closed it
Writing(w, r) == wpc[w] = "busy" /\ wreq[w].req_id = r

\* C13: at any moment at most one worker is attached to a buffer, and it is
\* the one worker the READ was dispatched to; the contents of a buffer change
\* only in that worker's step, while the client still waits; when the client
\* holds the array the worker has closed its handle and sent OK, and no other
\* worker has or will get the request.
C13_SingleWriter ==
  /\ [](\A r \in ReqIds :
          /\ Cardinality({w \in Workers : Writing(w, r)}) <= 1
          /\ \A w \in Workers : Writing(w, r) => dispatched[r] = <<w>>
          /\ req_status[r] = "returned" =>
               /\ Len(dispatched[r]) = 1
               /\ completed_by[r].status = "OK"
               /\ \A w \in Workers :
                    /\ ~Writing(w, r)
                    /\ \A i \in 1..Len(to_worker[w]) : to_worker[w][i].req_id # r)
  /\ [][\A r \in ReqIds :
          (shm[r] # Absent /\ shm'[r] # Absent /\ shm'[r] # shm[r])
            => /\ req_status[r] = "waiting"
               /\ arrays[r] = <<>>
               /\ \E w \in Workers :
                    /\ Writing(w, r)
                    /\ dispatched[r] = <<w>>
                    /\ wpc'[w] = "idle"]_vars

\* the client holds an array whose voxels the worker wrote, while another
\* worker is writing another buffer
C13_Witness ==
  \E r1, r2 \in ReqIds :
    /\ r1 # r2
    /\ req_status[r1] = "returned"
    /\ \E v \in Voxels : shm[r1][v] = volume_data(v)
    /\ \E w \in Workers : Writing(w, r2) /\ dispatched[r1] # <<w>>

\* The threshold of the small-request bypass ("default: large"): above the
\* element count of every region read here.
SHM_THRESHOLD == np_prod(ReadShape) + 1

\* C14: for a read of fewer than SHM_THRESHOLD elements no shared buffer is
\* created and no READ is sent to the scheduler.
C14_SmallReadBypass ==
  [][\A c \in Clients :
       np_prod(ReadShape) < SHM_THRESHOLD =>
         /\ to_sched'[c] = to_sched[c]
         /\ \A n \in 1..MaxReads :
              shm[<<c, n>>] = Absent => shm'[<<c, n>>] = Absent]_vars

\* C15: a read of a region with a zero axis raises its shape error with the
\* shared-memory namespace, the socket queues, the scheduler state and the
\* client's own state as they were: nothing was created, nothing was sent.
C15_EmptyShapeNoIO ==
  [][\A c \in Clients :
       shape_errors'[c] # shape_errors[c] =>
         /\ shape_errors'[c] = shape_errors[c] + 1
         /\ cpc[c] = "idle"
         /\ UNCHANGED <<shm, net_vars, sched_vars, worker_vars, client_vars,
                        req_status, unlink_log, arrays>>]_vars

\* a client has had one shape error and two reads that did create buffers
C15_Witness ==
  \E c \in Clients :
    /\ shape_errors[c] = 1
    /\ issued[c] = 2
    /\ shm[<<c, 1>>] # Absent
    /\ shm[<<c, 2>>] # Absent
    /\ Len(to_sched[c]) = 2

\* C16: handling a READY from an identity that is not registered adds it to
\* the worker set with load 0 and leaves the other workers' loads alone;
\* handling a READY from a registered identity changes nothing of the worker
\* set, the loads, the histories, the dispatch list and the dispatch counter.
C16_ReadyIdempotent ==
  [][\A w \in Workers :
       ( /\ to_sched[w] # <<>>
         /\ Head(to_sched[w]).type = "READY"
         /\ to_sched'[w] = Tail(to_sched[w]) )
       => IF w \in workers
          THEN UNCHANGED <<workers, worker_load, worker_history, worker_list,
                           rr_counter, process_map>>
          ELSE /\ workers' = workers \cup {w}
               /\ worker_load'[w] = 0
               /\ \A x \in workers : worker_load'[x] = worker_load[x]
               /\ worker_list' = sorted(workers \cup {w})
               /\ UNCHANGED <<worker_history, rr_counter, process_map>>]_vars

\* a worker with two requests outstanding sent READY again and still has them
C16_Witness ==
  \E w \in Workers :
    /\ frames["REPEAT"] = 1
    /\ w \in workers
    /\ n_dispatched[w] = 2
    /\ n_results[w] = 0
    /\ worker_load[w] = 2
    /\ Len(worker_history[w]) = 2

\* The array objects of buffer r that are still referenced and would close
\* and unlink it when released
Owners(r) ==
  {i \in 1..Len(arrays[r]) : arrays[r][i].alive /\ arrays[r][i]._owns_memory}

\* C17: while the array that read returned is referenced it is the one and
\* only owner of its buffer and every array derived from it is a non-owner;
\* a step that releases a derived array leaves the buffer linked and its
\* contents as they were; the buffer is unlinked in the step that releases
\* the returned array.
C17_SingleOwner ==
  /\ [](\A r \in ReqIds :
          /\ Cardinality(Owners(r)) <= 1
          /\ req_status[r] = "returned" => (Owners(r) = {1} /\ shm[r] # Absent)
          /\ req_status[r] # "returned" => Owners(r) = {})
  /\ [][\A r \in ReqIds :
          /\ (\E i \in 2..Len(arrays[r]) :
                 arrays[r][i].alive /\ ~arrays'[r][i].alive)
               => (shm'[r] = shm[r] /\ unlink_log'[r] = unlink_log[r])
          /\ (req_status[r] = "returned" /\ shm'[r] = Absent)
               => (arrays[r][1].alive /\ ~arrays'[r][1].alive)]_vars

\* two derived arrays were made and released, the returned array is still
\* held and its buffer is still linked
C17_Witness ==
  \E r \in ReqIds :
    /\ req_status[r] = "returned"
    /\ Len(arrays[r]) = MaxViews + 1
    /\ live_views(r) = {}
    /\ shm[r] # Absent
    /\ unlink_log[r] = <<>>

\* How many times worker w occurs in a sequence of workers
Count(seq, w) == Cardinality({i \in 1..Len(seq) : seq[i] = w})

\* C19: dispatches are numbered by rr_counter from 0; dispatch number n goes
\* to the worker at index n mod |workers| of the sorted worker set as it is at
\* that moment, whatever the loads; since the worker set last changed, any
\* |workers| consecutive dispatches went to different workers and no worker
\* got two more than another.
C19_RoundRobin ==
  /\ [](/\ worker_list = sorted(workers)
        /\ rr_counter = SumOver(n_dispatched, Workers)
        /\ \A i, j \in 1..Len(rr_log) :
             (i < j /\ j - i < Cardinality(workers)) => rr_log[i] # rr_log[j]
        /\ \A w1, w2 \in workers :
             Count(rr_log, w1) - Count(rr_log, w2) <= 1)
  /\ [][\A w \in Workers :
          n_dispatched'[w] # n_dispatched[w] =>
            /\ w = sorted(workers)[(rr_counter % Cardinality(workers)) + 1]
            /\ n_dispatched'[w] = n_dispatched[w] + 1
            /\ rr_counter' = rr_counter + 1
            /\ workers' = workers]_vars

\* two READs went to the only worker, a second worker registered, and the
\* third READ (number 2, index 2 mod 2 = 0) went to the first worker again
\* although it had two requests outstanding and the new worker none
C19_Witness ==
  /\ workers = Workers
  /\ rr_counter = 3
  /\ rr_log = <<1>>
  /\ n_dispatched[1] = 3
  /\ worker_load[1] = 3
  /\ worker_load[2] = 0

\* The scheduler takes client c's READ off its socket and routes it
ReadStepA(c) ==
  /\ workers # {}
  /\ to_sched[c] # <<>>
  /\ Head(to_sched[c]).type = "READ"
  /\ to_sched'[c] = Tail(to_sched[c])

\* C18: every request of process k is routed to one worker and process_map[k]
\* names that worker afterwards; when k's next request arrives and the load of
\* process_map[k] is at most min_load + 2, the request goes to that worker
\* again and process_map is left as it is.
C18_AffinitySticky ==
  [][\A c \in Clients :
       ReadStepA(c) =>
         LET k == pid_of(Head(to_sched[c]).req_id)
         IN /\ \E w \in workers :
                 /\ n_dispatched'[w] = n_dispatched[w] + 1
                 /\ k \in DOMAIN process_map'
                 /\ process_map'[k] = w
            /\ ( /\ k \in DOMAIN process_map
                 /\ worker_load[process_map[k]] <= min_load + LOAD_TOLERANCE )
               => /\ n_dispatched'[process_map[k]] =
                       n_dispatched[process_map[k]] + 1
                  /\ process_map' = process_map]_vars

\* with both workers registered, three requests of one process went to the
\* same worker, none answered, while the other worker never had any
C18_Witness ==
  \E k \in Clients, W \in Workers :
    /\ workers = Workers
    /\ rr_log = <<W, W, W>>
    /\ issued[k] = 3
    /\ to_sched[k] = <<>>
    /\ process_map[k] = W
    /\ worker_load[W] = 3
    /\ \A x \in Workers \ {W} : n_dispatched[x] = 0
    /\ \A x \in Workers : n_results[x] = 0

\* C20: when process k has no mapping, or its mapped worker's load is above
\* min_load + 2, the request goes to the worker with the smallest identity
\* among those of minimum load, and process_map[k] names it afterwards.
C20_FallbackLeastLoaded ==
  [][\A c \in Clients :
       ReadStepA(c) =>
         LET k == pid_of(Head(to_sched[c]).req_id)
             least == CHOOSE w \in workers :
                        /\ worker_load[w] = min_load
                        /\ \A x \in workers :
                             worker_load[x] = min_load => w <= x
         IN ( \/ k \notin DOMAIN process_map
              \/ worker_load[process_map[k]] > min_load + LOAD_TOLERANCE )
            => /\ n_dispatched'[least] = n_dispatched[least] + 1
               /\ k \in DOMAIN process_map'
               /\ process_map'[k] = least]_vars

\* ------------------------------------------------------------------------
\* The affinity routing scenario: both workers have registered before the
\* first READ, and a client process sends its next READ only after the RESULT
\* of its previous one has been forwarded to it (one outstanding request per
\* process).  The scheduler routes with old_dispatch_request.
PeerReadSeq(c) ==
  /\ workers = Workers
  /\ Len(to_client[c]) = issued[c]
  /\ PeerReadA(c)

ScenarioNext ==
  \/ \E w \in Workers : SchedReady(w)
  \/ \E c \in Clients : SchedReadA(c)
  \/ \E w \in Workers : SchedResult(w)
  \/ \E w \in Workers : PeerReady(w)
  \/ \E c \in Clients : PeerReadSeq(c)
  \/ \E w \in Workers : PeerAnswer(w)

ScenarioSpec == Init /\ [][ScenarioNext]_vars

\* A request of a process that has a mapping goes to the mapped worker and
\* the mapping stays
StaysMapped ==
  [][\A c \in Clients :
       ReadStepA(c) =>
         LET k == pid_of(Head(to_sched[c]).req_id)
         IN k \in DOMAIN process_map =>
              /\ n_dispatched'[process_map[k]] =
                   n_dispatched[process_map[k]] + 1
              /\ process_map' = process_map]_vars

\* C21 as stated: in the scenario all requests of one process are routed to
\* a single worker, and the two processes are mapped to distinct workers, in
\* every interleaving of their requests and results.
C21_AffinityScenario ==
  /\ StaysMapped
  /\ [](\A k1, k2 \in DOMAIN process_map :
          k1 # k2 => process_map[k1] # process_map[k2])

\* C21 as the code has it: in the scenario all requests of one process are
\* routed to a single worker; a process whose first request is dispatched
\* while a request of the other process is outstanding is mapped to the other
\* worker, and one whose first request is dispatched while nothing is
\* outstanding (both loads 0) may be mapped to either worker, the other
\* process's one included.
C21_AffinityScenarioAmended ==
  /\ StaysMapped
  /\ [][\A c \in Clients :
          ReadStepA(c) =>
            LET k == pid_of(Head(to_sched[c]).req_id)
            IN \A k2 \in DOMAIN process_map :
                 ( /\ k \notin DOMAIN process_map
                   /\ worker_load[process_map[k2]] > 0 )
                 => /\ k \in DOMAIN process_map'
                    /\ process_map'[k] # process_map[k2]]_vars

\* both processes have had two requests routed and answered, each process
\* on a worker of its own
C21_Witness ==
  /\ \A c \in Clients : issued[c] = 2 /\ Len(to_client[c]) = 2
  /\ DOMAIN process_map = Clients
  /\ \A k1, k2 \in Clients : k1 # k2 => process_map[k1] # process_map[k2]
  /\ \A w \in Workers : n_dispatched[w] = 2 /\ worker_load[w] = 0

\* ------------------------------------------------------------------------
\* The scheduler under a long run of READs: peers register and client peers
\* send up to MaxReadsH READs in all, none of which is answered, so that one
\* worker is chosen more than history_len times.  A peer numbers its READs
\* 1..MaxReads and then starts over (_dispatch_request does not read req_id).
PeerReadH(c) ==
  /\ SumOver(issued, Clients) < MaxReadsH
  /\ to_sched[c] = <<>>
  /\ issued' = [issued EXCEPT ![c] = @ + 1]
  /\ to_sched' = Send(to_sched, c, read_msg(<<c, (issued[c] % MaxReads) + 1>>))
  /\ UNCHANGED <<sched_vars, to_worker, to_client, worker_vars, cpc, shm,
                 hist_vars, rr_log, array_vars>>
  /\ UNCHANGED call

HistoryNext ==
  \/ \E w \in Workers : SchedReady(w)
  \/ \E c \in Clients : SchedRead(c)
  \/ \E w \in Workers : PeerReady(w)
  \/ \E c \in Clients : PeerReadH(c)

HistorySpec == Init /\ [][HistoryNext]_vars

\* The last n elements of a sequence (all of it when it is shorter)
LastN(seq, n) ==
  IF Len(seq) <= n THEN seq ELSE SubSeq(seq, Len(seq) - n + 1, Len(seq))

\* C22: every worker's history holds at most history_len = 5 bboxes and is
\* the sequence of the (up to) 5 bboxes most recently dispatched to that
\* worker, oldest first; a dispatch to a worker whose history is full drops
\* the oldest bbox and appends the new one.
C22_HistoryBounded ==
  /\ [](\A w \in Workers :
          /\ Len(worker_history[w]) <= history_len
          /\ worker_history[w] = LastN(bbox_log[w], history_len))
  /\ [][\A w \in Workers :
          ( /\ n_dispatched'[w] # n_dispatched[w]
            /\ Len(worker_history[w]) = history_len )
          => /\ Len(worker_history'[w]) = history_len
             /\ SubSeq(worker_history'[w], 1, history_len - 1) =
                  Tail(worker_history[w])
             /\ worker_history'[w][history_len] = bbox_log'[w][Len(bbox_log'[w])]
         ]_vars

\* seven bboxes went to one worker: its history holds the last five, which
\* differ from the first five
C22_Witness ==
  \E w \in Workers :
    /\ Len(bbox_log[w]) = 7
    /\ Len(worker_history[w]) = history_len
    /\ worker_history[w] # SubSeq(bbox_log[w], 1, history_len)
    /\ worker_history[w] # SubSeq(bbox_log[w], 2, history_len + 1)

\* ------------------------------------------------------------------------
\* fast_fill (utils.py, and the same text as a method of VolumeWorker).
\* An ndarray is described by its dtype, its element count, whether one of its
\* CONTIGUOUS flags is set and the address of its first element; the native
\* library by whether it was loaded and whether it exports parallel_fill_u64.
Dtypes ==
  {"uint8", "int8", "bool", "uint16", "float32", "int64", "uint64", "float64"}

\* array.itemsize
itemsize(dtype) ==
  CASE dtype \in {"uint8", "int8", "bool"} -> 1
    [] dtype = "uint16" -> 2
    [] dtype = "float32" -> 4
    [] dtype \in {"int64", "uint64", "float64"} -> 8

\* np.issubdtype(array.dtype, np.integer)
np_integer(dtype) == dtype \in {"uint8", "int8", "uint16", "int64", "uint64"}

\* array.nbytes
nbytes(array) == array.size * itemsize(array.dtype)

\* addresses of a first element: the start of a page, and one byte further
\* (an array made at offset 1 of a buffer)
Addresses == {4096, 4097}

Arrays ==
  [dtype : Dtypes, size : {1, MaxElems}, contiguous : BOOLEAN,
   data : Addresses]

Libs == {[loaded |-> FALSE, u64 |-> FALSE], [loaded |-> TRUE, u64 |-> FALSE],
         [loaded |-> TRUE, u64 |-> TRUE]}

\* the fill values tried: zero, a byte, a value above a byte, a negative one
FillValues == {0, 7, 263, -1}

\* ctypes.c_uint64(int(value)): the 8 bytes of the word, lowest first (two's
\* complement for a negative value)
RECURSIVE to_bytes(_, _)
to_bytes(value, n) ==
  IF n = 0 THEN <<>> ELSE <<value % 256>> \o to_bytes(value \div 256, n - 1)

c_uint64(value) == to_bytes(value, 8)

\* Mutant: the one-byte rule is tried before the zero rule and passes the
\* value as it is.
fast_fill_byte_first(array, value, num_threads, lib) ==
  IF ~lib.loaded THEN [call |-> "array.fill", value |-> value]
  ELSE IF ~array.contiguous THEN [call |-> "array.fill", value |-> value]
  ELSE IF itemsize(array.dtype) = 1
  THEN [call |-> "parallel_fill_u8", ptr |-> array.data, n |-> nbytes(array),
        value |-> value, threads |-> num_threads]
  ELSE IF value = 0
  THEN [call |-> "parallel_fill_u8", ptr |-> array.data, n |-> nbytes(array),
        value |-> 0, threads |-> num_threads]
  ELSE IF itemsize(array.dtype) = 8 /\ np_integer(array.dtype)
  THEN IF lib.u64
       THEN [call |-> "parallel_fill_u64", ptr |-> array.data,
             n |-> array.size, value |-> c_uint64(value),
             threads |-> num_threads]
       ELSE [call |-> "array.fill", value |-> value]
  ELSE [call |-> "array.fill", value |-> value]

\* fast_fill(array, value, num_threads) with the module's _lib: the call it
\* makes to fill the array
fast_fill(array, value, num_threads, lib) ==
  IF ~lib.loaded THEN [call |-> "array.fill", value |-> value]
  ELSE IF ~array.contiguous THEN [call |-> "array.fill", value |-> value]
  ELSE IF value = 0
  THEN [call |-> "parallel_fill_u8", ptr |-> array.data, n |-> nbytes(array),
        value |-> 0, threads |-> num_threads]
  ELSE IF itemsize(array.dtype) = 8 /\ np_integer(array.dtype)
  THEN IF lib.u64
       THEN [call |-> "parallel_fill_u64", ptr |-> array.data,
             n |-> array.size, value |-> c_uint64(value),
             threads |-> num_threads]
       ELSE [call |-> "array.fill", value |-> value]
  ELSE IF itemsize(array.dtype) = 1
  THEN [call |-> "parallel_fill_u8", ptr |-> array.data, n |-> nbytes(array),
        value |-> value % 256, threads |-> num_threads]
  ELSE [call |-> "array.fill", value |-> value]

FillInit ==
  /\ ProcessInit
  /\ call \in [fn : {"fast_fill"}, array : Arrays, value : FillValues,
               num_threads : {4, 8}, lib : Libs, did : {<<>>}]

\* fast_fill is called and returns
FastFill ==
  /\ call.fn = "fast_fill"
  /\ call.did = <<>>
  /\ call' = [call EXCEPT !.did = <<fast_fill(call.array, call.value,
                                              call.num_threads, call.lib)>>]
  /\ UNCHANGED <<sched_vars, net_vars, worker_vars, client_vars, shm,
                 hist_vars, rr_log, array_vars>>

FillSpec == FillInit /\ [][FastFill]_vars

\* fast_fill has returned from a call on a contiguous array with the native
\* library loaded and both of its entry points present
FilledNatively ==
  /\ call.fn = "fast_fill"
  /\ call.did # <<>>
  /\ call.array.contiguous
  /\ call.lib.loaded
  /\ call.lib.u64

C24_AlignedU64 ==
  (call.fn = "fast_fill" /\ call.did # <<>>) =>
    LET a == call.array
        ok == /\ a.contiguous
              /\ a.data % 8 = 0
              /\ (a.size * itemsize(a.dtype)) % 8 = 0
    IN /\ call.did[1].call = "parallel_fill_u64" => ok
       /\ (call.value # 0 /\ itemsize(a.dtype) = 8 /\ ~ok) =>
            call.did[1].call = "array.fill"

\* ------------------------------------------------------------------------
\* calc_intersection_volume (utils.py) on flat boxes <<x1, y1, z1, x2, y2, z2>>
Min(a, b) == IF a <= b THEN a ELSE b

\* Mutant: 0 is returned only when no axis overlaps.
calc_intersection_volume_all_axes(bbox_a, bbox_b) ==
  LET ix1 == Max(bbox_a[1], bbox_b[1])
      iy1 == Max(bbox_a[2], bbox_b[2])
      iz1 == Max(bbox_a[3], bbox_b[3])
      ix2 == Min(bbox_a[4], bbox_b[4])
      iy2 == Min(bbox_a[5], bbox_b[5])
      iz2 == Min(bbox_a[6], bbox_b[6])
  IN IF ix1 >= ix2 /\ iy1 >= iy2 /\ iz1 >= iz2 THEN 0
     ELSE (ix2 - ix1) * (iy2 - iy1) * (iz2 - iz1)

\* calc_intersection_volume(bbox_a, bbox_b)
calc_intersection_volume(bbox_a, bbox_b) ==
  LET ix1 == Max(bbox_a[1], bbox_b[1])
      iy1 == Max(bbox_a[2], bbox_b[2])
      iz1 == Max(bbox_a[3], bbox_b[3])
      ix2 == Min(bbox_a[4], bbox_b[4])
      iy2 == Min(bbox_a[5], bbox_b[5])
      iz2 == Min(bbox_a[6], bbox_b[6])
  IN IF ix1 >= ix2 \/ iy1 >= iy2 \/ iz1 >= iz2 THEN 0
     ELSE (ix2 - ix1) * (iy2 - iy1) * (iz2 - iz1)

\* the boxes tried: every box with corners in 0..MaxCoord and x1 <= x2,
\* y1 <= y2, z1 <= z2 (empty along an axis where the two are equal), and the
\* two regions that clients read
SmallBoxes ==
  {b \in [1..6 -> 0..MaxCoord] : b[1] <= b[4] /\ b[2] <= b[5] /\ b[3] <= b[6]}

Boxes == SmallBoxes \cup {bbox_of(1), bbox_of(2)}

IntersectInit ==
  /\ ProcessInit
  /\ call \in [fn : {"calc_intersection_volume"}, bbox_a : Boxes,
               bbox_b : Boxes, did : {<<>>}]

\* calc_intersection_volume is called and returns
CalcIntersection ==
  /\ call.fn = "calc_intersection_volume"
  /\ call.did = <<>>
  /\ call' = [call EXCEPT
                !.did = <<calc_intersection_volume(call.bbox_a, call.bbox_b)>>]
  /\ UNCHANGED <<sched_vars, net_vars, worker_vars, client_vars, shm,
                 hist_vars, rr_log, array_vars>>

IntersectSpec == IntersectInit /\ [][CalcIntersection]_vars

\* The unit voxels of a half-open box with corners in 0..MaxCoord
Cells(b) ==
  {v \in (0..(MaxCoord - 1)) \X (0..(MaxCoord - 1)) \X (0..(MaxCoord - 1)) :
     /\ b[1] <= v[1] /\ v[1] < b[4]
     /\ b[2] <= v[2] /\ v[2] < b[5]
     /\ b[3] <= v[3] /\ v[3] < b[6]}

\* The length of the overlap of a and b along axis i (1..3), negative when
\* they are apart
OverlapLen(a, b, i) == Min(a[i + 3], b[i + 3]) - Max(a[i], b[i])

\* C25: calc_intersection_volume(a, b) is the product of the three per-axis
\* overlap lengths when all three are positive and 0 otherwise (0 for boxes
\* that only touch); it is the number of voxels that lie in both boxes; it
\* is symmetric, never negative, and calc_intersection_volume(a, a) is the
\* volume of a; (0,0,0,100,100,10) against (50,50,0,150,150,10) gives a
\* value above 0.
C25_IntersectionVolume ==
  (call.fn = "calc_intersection_volume" /\ call.did # <<>>) =>
    LET a == call.bbox_a
        b == call.bbox_b
        vol == call.did[1]
    IN /\ vol = IF \A i \in 1..3 : OverlapLen(a, b, i) > 0
               THEN OverlapLen(a, b, 1) * OverlapLen(a, b, 2)
                      * OverlapLen(a, b, 3)
               ELSE 0
       /\ (a \in SmallBoxes /\ b \in SmallBoxes) =>
            vol = Cardinality(Cells(a) \cap Cells(b))
       /\ vol = calc_intersection_volume(b, a)
       /\ vol >= 0
       /\ a = b => vol = (a[4] - a[1]) * (a[5] - a[2]) * (a[6] - a[3])
       /\ (a = <<0, 0, 0, 100, 100, 10>> /\ b = <<50, 50, 0, 150, 150, 10>>)
            => vol > 0

\* the two regions of the example overlap in 50 x 50 x 10 voxels
C25_Witness ==
  /\ call.fn = "calc_intersection_volume"
  /\ call.bbox_a = <<0, 0, 0, 100, 100, 10>>
  /\ call.bbox_b = <<50, 50, 0, 150, 150, 10>>
  /\ call.did = <<25000>>

\* ------------------------------------------------------------------------
\* Worker death: the scheduler, the workers (which start, serve requests
\* from a volume that holds the whole region, and may be killed) and the
\* clients, which read and wait.  The scheduler's loop is not starved and a
\* waiting client's poll ends (by a record or by the timeout of
\* _wait_response).
DeathNext ==
  \/ SchedNext
  \/ \E w \in Workers : WorkerStart(w)
  \/ \E w \in Workers : WorkerAttach(w)
  \/ \E w \in Workers : WorkerFinish(w, Voxels)
  \/ \E w \in Workers : WorkerCrash(w)
  \/ \E c \in Clients : ClientRead(c)
  \/ \E c \in Clients : ClientRecvSkip(c)
  \/ \E c \in Clients : ClientRecvOK(c)
  \/ \E c \in Clients : ClientTimeout(c)

DeathSpec ==
  /\ Init /\ [][DeathNext]_vars
  /\ WF_vars(SchedNext)
  /\ \A c \in Clients : WF_vars(ClientTimeout(c))

\* Request r was forwarded to a worker that is dead, and no RESULT for r is
\* on its way to the scheduler or to the client or has been taken as the
\* answer by the client
Lost(r) ==
  \E w \in Workers :
    /\ wpc[w] = "dead"
    /\ \E i \in 1..Len(dispatched[r]) : dispatched[r][i] = w
    /\ \A i \in 1..Len(to_sched[w]) : to_sched[w][i].req_id # r
    /\ \A i \in 1..Len(to_client[r[1]]) : to_client[r[1]][i].req_id # r
    /\ completed_by[r] = NoMsg

\* A registered worker is dead
DeadRegistered == \E w \in workers : wpc[w] = "dead"

ReadHandled ==
  \E c \in Clients :
    /\ workers # {}
    /\ to_sched[c] # <<>>
    /\ Head(to_sched[c]).type = "READ"
    /\ to_sched'[c] = Tail(to_sched[c])

\* The scheduler takes a RESULT of identity w off its socket
ResultHandled(w) ==
  /\ to_sched[w] # <<>>
  /\ Head(to_sched[w]).type = "RESULT"
  /\ to_sched'[w] = Tail(to_sched[w])

\* C27: in every state of the scheduler worker_list is the sorted list of
\* the identities in workers and worker_load has an entry for exactly those
\* identities; no step removes a worker; a dispatch goes to a registered
\* identity.
C27_TablesConsistent ==
  /\ [](/\ worker_list = sorted(workers)
        /\ DOMAIN worker_load = workers)
  /\ [][/\ workers \subseteq workers'
        /\ \A w \in Workers :
             n_dispatched'[w] # n_dispatched[w] => w \in workers
        /\ ReadHandled =>
             \E w \in workers : Len(to_worker'[w]) = Len(to_worker[w]) + 1]_vars

\* only the second identity has registered and has been given two READs; a
\* RESULT of the first identity, which never registered, has been handled
C27_Witness ==
  /\ workers = {2}
  /\ worker_list = <<2>>
  /\ n_dispatched[2] = 2
  /\ n_results[1] = 1
  /\ DOMAIN worker_load = {2}
  /\ worker_load[2] = 2

\* C28: handling a READ adds 1 to the load of the chosen worker, appends the
\* bbox to its history and adds 1 to rr_counter, and leaves the other
\* workers' loads and histories, the worker set and process_map as they were;
\* handling a RESULT changes no load but the sender's, and no history, nor
\* the worker set, rr_counter or process_map; a RESULT of an identity that
\* is not registered changes no load.
C28_HandlerFrames ==
  /\ [][ReadHandled =>
          \E w \in workers :
            /\ worker_load' = [worker_load EXCEPT ![w] = @ + 1]
            /\ \E c \in Clients :
                 /\ to_sched[c] # <<>>
                 /\ to_sched'[c] = Tail(to_sched[c])
                 /\ worker_history' =
                      [worker_history EXCEPT
                         ![w] = LastN(Append(@, Head(to_sched[c]).bbox),
                                      history_len)]
            /\ rr_counter' = rr_counter + 1
            /\ workers' = workers
            /\ worker_list' = worker_list
            /\ process_map' = process_map]_vars
  /\ [][\A w \in Workers :
          ResultHandled(w) =>
            /\ \A x \in DOMAIN worker_load \ {w} :
                 worker_load'[x] = worker_load[x]
            /\ DOMAIN worker_load' = DOMAIN worker_load
            /\ w \notin workers => worker_load' = worker_load
            /\ worker_history' = worker_history
            /\ workers' = workers
            /\ worker_list' = worker_list
            /\ rr_counter' = rr_counter
            /\ process_map' = process_map]_vars

\* the first identity is registered and holds one READ with a load of 1; a
\* RESULT of the second identity, which never registered, has been handled
\* and a RESULT of the first has brought its load from 2 to 1
C28_Witness ==
  /\ workers = {1}
  /\ rr_counter = 2
  /\ n_dispatched[1] = 2
  /\ Len(worker_history[1]) = 2
  /\ worker_history[2] = <<>>
  /\ n_results[1] = 1
  /\ n_results[2] = 1
  /\ worker_load[1] = 1

====
